---- MODULE Spec2Model ----
(***************************************************************************)
(* Model of scripts/startup/bl_ui/properties_data_grease_pencil.py.        *)
(*                                                                         *)
(* The file declares two poll mixins, four panels and one menu.  The host  *)
(* UI framework owns the context (active object, grease pencil data-block, *)
(* its layers, the editor space) and invokes the poll and draw callbacks.  *)
(* The state below is the host context the callbacks read, the classes     *)
(* registered so far, and the observable outcome of the last callback: its *)
(* return value (or the exception it raised), the widgets it emitted, the  *)
(* layout attributes it wrote and the attributes it read.                  *)
(*                                                                         *)
(* Python values are modelled as strings: "None", "False", "True", "GP"    *)
(* (a grease pencil data-block), "OB" (an object), "LAYER" (a layer) and   *)
(* "AttributeError" for a raised exception; "MISSING" is the value of a    *)
(* context member the context does not have (hasattr is False).            *)
(***************************************************************************)
EXTENDS Integers, Sequences, FiniteSets, TLC

VARIABLES grease_pencil, object, space_type, layers, active,
          use_autolock_layers, hostSteps, registered,
          lastOp, lastCls, result, widgets, attrs, reads

hostVars == <<grease_pencil, object, space_type, layers, active, use_autolock_layers>>
outVars == <<lastOp, lastCls, result, widgets, attrs, reads>>
vars == <<grease_pencil, object, space_type, layers, active,
          use_autolock_layers, hostSteps, registered,
          lastOp, lastCls, result, widgets, attrs, reads>>

(* ---------------------------------------------------------------- bounds *)
MaxLayers == 2
MaxVal == 1
MaxHostSteps == 4

(* ------------------------------------------------------- host data model *)
ParentTypes == {"None", "ARMATURE", "MESH"}
ValueFields == {"opacity", "translation", "rotation", "scale", "pass_index", "parent_bone"}
LayerFields == ValueFields \cup {"lock", "parent"}
SpaceTypes == {"PROPERTIES", "DOPESHEET_EDITOR"}

NewLayer ==
  [lock |-> FALSE, parent |-> "None", parent_bone |-> 0, opacity |-> 0,
   translation |-> 0, rotation |-> 0, scale |-> 0, pass_index |-> 0]

(* Python truthiness of the modelled values *)
Truthy(v) == v \in {"True", "GP", "OB", "LAYER"}

PyBool(b) == IF b THEN "True" ELSE "False"

(* grease_pencil.layers.active: None when no layer is active *)
ActiveLayer(act) == IF act = 0 THEN "None" ELSE "LAYER"

(* ------------------------------------------------------------ the classes *)
(* variant: the child panels listed ahead of their parent *)
classes_child_first ==
  << "DATA_PT_context_grease_pencil",
     "DATA_PT_grease_pencil_layer_transform",
     "DATA_PT_grease_pencil_layer_relations",
     "DATA_PT_grease_pencil_layers",
     "GREASE_PENCIL_MT_grease_pencil_add_layer_extra" >>

classes ==
  << "DATA_PT_context_grease_pencil",
     "DATA_PT_grease_pencil_layers",
     "DATA_PT_grease_pencil_layer_transform",
     "DATA_PT_grease_pencil_layer_relations",
     "GREASE_PENCIL_MT_grease_pencil_add_layer_extra" >>

ClassNames == {classes[i] : i \in 1..Len(classes)}

Panels ==
  { "DATA_PT_context_grease_pencil", "DATA_PT_grease_pencil_layers",
    "DATA_PT_grease_pencil_layer_transform", "DATA_PT_grease_pencil_layer_relations" }

Menus == { "GREASE_PENCIL_MT_grease_pencil_add_layer_extra" }

(* bl_parent_id of a class, "" when the class declares none *)
bl_parent_id(cls) ==
  CASE cls = "DATA_PT_grease_pencil_layer_transform" -> "DATA_PT_grease_pencil_layers"
    [] cls = "DATA_PT_grease_pencil_layer_relations" -> "DATA_PT_grease_pencil_layers"
    [] OTHER -> ""

(* the mixin a panel class inherits its poll from *)
MixinOf(cls) ==
  CASE cls = "DATA_PT_context_grease_pencil" -> "DataButtonsPanel"
    [] cls = "DATA_PT_grease_pencil_layers" -> "DataButtonsPanel"
    [] cls = "DATA_PT_grease_pencil_layer_transform" -> "LayerDataButtonsPanel"
    [] cls = "DATA_PT_grease_pencil_layer_relations" -> "LayerDataButtonsPanel"
    [] OTHER -> "Menu"

(* ------------------------------------------------------------------ polls *)
(* variant: the presence test of the data-block negated *)
DataButtonsPanel_poll_negated(gp) ==
  IF gp = "MISSING" THEN "False" ELSE PyBool(~Truthy(gp))

(* return hasattr(context, "grease_pencil") and context.grease_pencil *)
DataButtonsPanel_poll(gp) ==
  IF gp = "MISSING" THEN "False" ELSE gp

(* variant: the poll stops at the data-block and ignores layers.active *)
LayerDataButtonsPanel_poll_noactive(gp, act) ==
  IF gp = "MISSING" THEN "AttributeError" ELSE gp

(* grease_pencil = context.grease_pencil
   return grease_pencil and grease_pencil.layers.active *)
LayerDataButtonsPanel_poll(gp, act) ==
  IF gp = "MISSING" THEN "AttributeError"
  ELSE IF ~Truthy(gp) THEN gp
  ELSE ActiveLayer(act)

PollOf(cls, gp, act) ==
  CASE MixinOf(cls) = "DataButtonsPanel" -> DataButtonsPanel_poll(gp)
    [] MixinOf(cls) = "LayerDataButtonsPanel" -> LayerDataButtonsPanel_poll(gp, act)
    [] OTHER -> "True"

PollReads(cls, gp) ==
  IF MixinOf(cls) = "DataButtonsPanel" /\ gp = "MISSING" THEN {}
  ELSE IF MixinOf(cls) = "LayerDataButtonsPanel" /\ Truthy(gp)
       THEN {"context.grease_pencil", "grease_pencil.layers", "layers.active"}
       ELSE {"context.grease_pencil"}

(* ------------------------------------------------------------------ draws *)
(* A draw's outcome: whether it raised, the widgets emitted before it
   returned or raised, the layout attributes written, the attributes read.
   A widget is <<kind, target, option>>; an attribute write is <<name, value>>. *)
Outcome(e, w, a, r) == [err |-> e, widgets |-> w, attrs |-> a, reads |-> r]

(* variant: the second branch written as `if` instead of `elif` *)
DATA_PT_context_grease_pencil_draw_both(ob, gp) ==
  IF gp = "MISSING"
  THEN Outcome(TRUE, <<>>, {}, {"context.object"})
  ELSE Outcome(FALSE,
         (IF Truthy(ob) THEN << <<"template_ID", "ob", "data">> >> ELSE <<>>)
         \o (IF Truthy(gp) THEN << <<"template_ID", "space", "pin_id">> >> ELSE <<>>),
         {},
         {"context.object", "context.grease_pencil", "context.space_data"})

(* DATA_PT_context_grease_pencil.draw *)
DATA_PT_context_grease_pencil_draw(ob, gp) ==
  IF gp = "MISSING"
  THEN Outcome(TRUE, <<>>, {}, {"context.object"})
  ELSE Outcome(FALSE,
         IF Truthy(ob) THEN << <<"template_ID", "ob", "data">> >>
         ELSE IF Truthy(gp) THEN << <<"template_ID", "space", "pin_id">> >>
         ELSE <<>>,
         {},
         {"context.object", "context.grease_pencil", "context.space_data"})

(* GREASE_PENCIL_MT_grease_pencil_add_layer_extra.draw *)
GREASE_PENCIL_MT_grease_pencil_add_layer_extra_draw(ob, sp) ==
  IF ~Truthy(ob)
  THEN Outcome(TRUE, <<>>, {}, {"context.object"})
  ELSE Outcome(FALSE,
         (IF sp = "PROPERTIES"
          THEN << <<"operator", "grease_pencil.layer_group_add", "">> >>
          ELSE <<>>)
         \o << <<"separator", "", "">>,
               <<"operator", "grease_pencil.layer_duplicate", "">>,
               <<"operator", "grease_pencil.layer_duplicate", "empty_keyframes=True">>,
               <<"separator", "", "">>,
               <<"operator", "grease_pencil.layer_reveal", "">>,
               <<"operator", "grease_pencil.layer_hide", "unselected=True">>,
               <<"separator", "", "">>,
               <<"operator", "grease_pencil.layer_lock_all", "">>,
               <<"operator", "grease_pencil.layer_lock_all", "lock=False">>,
               <<"separator", "", "">>,
               <<"prop", "grease_pencil.use_autolock_layers", "">> >>,
         {},
         {"context.object", "object.data", "context.space_data", "space.type"})

(* variant: the opacity slider emitted without the `if layer:` test *)
DATA_PT_grease_pencil_layers_draw_unguarded(gp, act) ==
  IF gp = "MISSING" THEN Outcome(TRUE, <<>>, {}, {})
  ELSE IF ~Truthy(gp) THEN Outcome(TRUE, <<>>, {}, {"context.grease_pencil"})
  ELSE Outcome(FALSE,
         << <<"template_grease_pencil_layer_tree", "", "">>,
            <<"operator", "grease_pencil.layer_add", "">>,
            <<"menu", "GREASE_PENCIL_MT_grease_pencil_add_layer_extra", "">>,
            <<"operator", "grease_pencil.layer_remove", "">>,
            <<"prop", "layer.opacity", "slider">> >>,
         {<<"sub.operator_context", "EXEC_DEFAULT">>,
          <<"layout.use_property_split", "True">>,
          <<"layout.use_property_decorate", "True">>},
         {"context.grease_pencil", "grease_pencil.layers", "layers.active"})

(* DATA_PT_grease_pencil_layers.draw *)
DATA_PT_grease_pencil_layers_draw(gp, act) ==
  IF gp = "MISSING" THEN Outcome(TRUE, <<>>, {}, {})
  ELSE IF ~Truthy(gp) THEN Outcome(TRUE, <<>>, {}, {"context.grease_pencil"})
  ELSE Outcome(FALSE,
         << <<"template_grease_pencil_layer_tree", "", "">>,
            <<"operator", "grease_pencil.layer_add", "">>,
            <<"menu", "GREASE_PENCIL_MT_grease_pencil_add_layer_extra", "">>,
            <<"operator", "grease_pencil.layer_remove", "">> >>
         \o (IF Truthy(ActiveLayer(act))
             THEN << <<"prop", "layer.opacity", "slider">> >>
             ELSE <<>>),
         {<<"sub.operator_context", "EXEC_DEFAULT">>}
         \cup (IF Truthy(ActiveLayer(act))
               THEN {<<"layout.use_property_split", "True">>,
                     <<"layout.use_property_decorate", "True">>}
               ELSE {}),
         {"context.grease_pencil", "grease_pencil.layers", "layers.active"})

(* variant: layout.active = layer.lock, the negation dropped *)
DATA_PT_grease_pencil_layer_transform_draw_nonot(gp, act, lyrs) ==
  IF gp = "MISSING"
  THEN Outcome(TRUE, <<>>, {<<"layout.use_property_split", "True">>}, {})
  ELSE IF ~Truthy(gp)
  THEN Outcome(TRUE, <<>>, {<<"layout.use_property_split", "True">>},
               {"context.grease_pencil"})
  ELSE IF ~Truthy(ActiveLayer(act))
  THEN Outcome(TRUE, <<>>, {<<"layout.use_property_split", "True">>},
               {"context.grease_pencil", "grease_pencil.layers", "layers.active"})
  ELSE Outcome(FALSE,
         << <<"prop", "layer.translation", "">>,
            <<"prop", "layer.rotation", "">>,
            <<"prop", "layer.scale", "">> >>,
         {<<"layout.use_property_split", "True">>,
          <<"layout.active", PyBool(lyrs[act].lock)>>},
         {"context.grease_pencil", "grease_pencil.layers", "layers.active",
          "layer.lock"})

(* DATA_PT_grease_pencil_layer_transform.draw *)
DATA_PT_grease_pencil_layer_transform_draw(gp, act, lyrs) ==
  IF gp = "MISSING"
  THEN Outcome(TRUE, <<>>, {<<"layout.use_property_split", "True">>}, {})
  ELSE IF ~Truthy(gp)
  THEN Outcome(TRUE, <<>>, {<<"layout.use_property_split", "True">>},
               {"context.grease_pencil"})
  ELSE IF ~Truthy(ActiveLayer(act))
  THEN Outcome(TRUE, <<>>, {<<"layout.use_property_split", "True">>},
               {"context.grease_pencil", "grease_pencil.layers", "layers.active"})
  ELSE Outcome(FALSE,
         << <<"prop", "layer.translation", "">>,
            <<"prop", "layer.rotation", "">>,
            <<"prop", "layer.scale", "">> >>,
         {<<"layout.use_property_split", "True">>,
          <<"layout.active", PyBool(~lyrs[act].lock)>>},
         {"context.grease_pencil", "grease_pencil.layers", "layers.active",
          "layer.lock"})

(* variant: the bone search emitted for any parent, the type test dropped *)
DATA_PT_grease_pencil_layer_relations_draw_anyparent(gp, act, lyrs) ==
  IF gp = "MISSING"
  THEN Outcome(TRUE, <<>>, {<<"layout.use_property_split", "True">>}, {})
  ELSE IF ~Truthy(gp)
  THEN Outcome(TRUE, <<>>, {<<"layout.use_property_split", "True">>},
               {"context.grease_pencil"})
  ELSE IF ~Truthy(ActiveLayer(act))
  THEN Outcome(TRUE, <<>>, {<<"layout.use_property_split", "True">>},
               {"context.grease_pencil", "grease_pencil.layers", "layers.active"})
  ELSE Outcome(FALSE,
         << <<"prop", "layer.parent", "">> >>
         \o (IF lyrs[act].parent # "None"
             THEN << <<"prop_search", "layer.parent_bone", "layer.parent.data.bones">> >>
             ELSE <<>>)
         \o << <<"separator", "", "">>,
               <<"prop", "layer.pass_index", "">> >>,
         {<<"layout.use_property_split", "True">>,
          <<"layout.active", PyBool(~lyrs[act].lock)>>},
         {"context.grease_pencil", "grease_pencil.layers", "layers.active",
          "layer.lock", "layer.parent"}
         \cup (IF lyrs[act].parent # "None" THEN {"layer.parent.data"} ELSE {}))

(* DATA_PT_grease_pencil_layer_relations.draw *)
DATA_PT_grease_pencil_layer_relations_draw(gp, act, lyrs) ==
  IF gp = "MISSING"
  THEN Outcome(TRUE, <<>>, {<<"layout.use_property_split", "True">>}, {})
  ELSE IF ~Truthy(gp)
  THEN Outcome(TRUE, <<>>, {<<"layout.use_property_split", "True">>},
               {"context.grease_pencil"})
  ELSE IF ~Truthy(ActiveLayer(act))
  THEN Outcome(TRUE, <<>>, {<<"layout.use_property_split", "True">>},
               {"context.grease_pencil", "grease_pencil.layers", "layers.active"})
  ELSE Outcome(FALSE,
         << <<"prop", "layer.parent", "">> >>
         \o (IF lyrs[act].parent # "None" /\ lyrs[act].parent = "ARMATURE"
             THEN << <<"prop_search", "layer.parent_bone", "layer.parent.data.bones">> >>
             ELSE <<>>)
         \o << <<"separator", "", "">>,
               <<"prop", "layer.pass_index", "">> >>,
         {<<"layout.use_property_split", "True">>,
          <<"layout.active", PyBool(~lyrs[act].lock)>>},
         {"context.grease_pencil", "grease_pencil.layers", "layers.active",
          "layer.lock", "layer.parent"}
         \cup (IF lyrs[act].parent # "None" THEN {"layer.parent.type"} ELSE {})
         \cup (IF lyrs[act].parent # "None" /\ lyrs[act].parent = "ARMATURE"
               THEN {"layer.parent.data"} ELSE {}))

TypeOK ==
  /\ grease_pencil \in {"MISSING", "None", "GP"}
  /\ object \in {"None", "OB"}
  /\ space_type \in SpaceTypes
  /\ Len(layers) \in 0..MaxLayers
  /\ active \in 0..Len(layers)
  /\ use_autolock_layers \in BOOLEAN
  /\ hostSteps \in 0..MaxHostSteps

Init ==
  /\ grease_pencil = "GP"
  /\ object = "OB"
  /\ space_type = "PROPERTIES"
  /\ layers = <<>>
  /\ active = 0
  /\ use_autolock_layers = FALSE
  /\ hostSteps = 0
  /\ registered = <<>>
  /\ lastOp = "none"
  /\ lastCls = ""
  /\ result = "None"
  /\ widgets = <<>>
  /\ attrs = {}
  /\ reads = {}

(* for cls in classes: register_class(cls) *)
RegisterClass ==
  /\ Len(registered) < Len(classes)
  /\ registered' = Append(registered, classes[Len(registered) + 1])
  /\ lastOp' = "register"
  /\ lastCls' = classes[Len(registered) + 1]
  /\ result' = "None"
  /\ widgets' = <<>>
  /\ attrs' = {}
  /\ reads' = {}
  /\ UNCHANGED <<grease_pencil, object, space_type, layers, active,
                 use_autolock_layers, hostSteps>>

IsRegistered(cls) == \E i \in 1..Len(registered) : registered[i] = cls

(* the host invokes a callback: its return value (or the exception), the
   widgets it emitted and the attributes it wrote and read replace those of
   the previous callback *)
Callback(op, cls, ret, out) ==
  /\ lastOp' = op
  /\ lastCls' = cls
  /\ result' = IF out.err THEN "AttributeError" ELSE ret
  /\ widgets' = out.widgets
  /\ attrs' = out.attrs
  /\ reads' = out.reads
  /\ UNCHANGED <<hostSteps, registered>>

(* the host polls a registered panel class *)
Poll(cls) ==
  /\ cls \in Panels
  /\ IsRegistered(cls)
  /\ Callback("poll", cls, PollOf(cls, grease_pencil, active),
              Outcome(PollOf(cls, grease_pencil, active) = "AttributeError",
                      <<>>, {}, PollReads(cls, grease_pencil)))
  /\ UNCHANGED <<grease_pencil, object, space_type, layers, active, use_autolock_layers>>

(* the host draws a panel only where the panel's poll returns a truthy value *)
HostDraws(cls) ==
  /\ IsRegistered(cls)
  /\ Truthy(PollOf(cls, grease_pencil, active))

Draw_context_grease_pencil ==
  /\ HostDraws("DATA_PT_context_grease_pencil")
  /\ Callback("draw", "DATA_PT_context_grease_pencil", "None",
              DATA_PT_context_grease_pencil_draw(object, grease_pencil))
  /\ UNCHANGED <<grease_pencil, object, space_type, layers, active, use_autolock_layers>>

Draw_grease_pencil_layers ==
  /\ HostDraws("DATA_PT_grease_pencil_layers")
  /\ Callback("draw", "DATA_PT_grease_pencil_layers", "None",
              DATA_PT_grease_pencil_layers_draw(grease_pencil, active))
  /\ UNCHANGED <<grease_pencil, object, space_type, layers, active, use_autolock_layers>>

(* variant: the draw clears the lock of the layer it displays *)
Draw_grease_pencil_layer_transform_unlocks ==
  /\ HostDraws("DATA_PT_grease_pencil_layer_transform")
  /\ Callback("draw", "DATA_PT_grease_pencil_layer_transform", "None",
              DATA_PT_grease_pencil_layer_transform_draw(grease_pencil, active, layers))
  /\ layers' = [layers EXCEPT ![active].lock = FALSE]
  /\ UNCHANGED <<grease_pencil, object, space_type, active, use_autolock_layers>>

Draw_grease_pencil_layer_transform ==
  /\ HostDraws("DATA_PT_grease_pencil_layer_transform")
  /\ Callback("draw", "DATA_PT_grease_pencil_layer_transform", "None",
              DATA_PT_grease_pencil_layer_transform_draw(grease_pencil, active, layers))
  /\ UNCHANGED <<grease_pencil, object, space_type, layers, active, use_autolock_layers>>

Draw_grease_pencil_layer_relations ==
  /\ HostDraws("DATA_PT_grease_pencil_layer_relations")
  /\ Callback("draw", "DATA_PT_grease_pencil_layer_relations", "None",
              DATA_PT_grease_pencil_layer_relations_draw(grease_pencil, active, layers))
  /\ UNCHANGED <<grease_pencil, object, space_type, layers, active, use_autolock_layers>>

(* the menu declares no poll: the host draws it whenever it is opened *)
Draw_add_layer_extra ==
  /\ HostDraws("GREASE_PENCIL_MT_grease_pencil_add_layer_extra")
  /\ Callback("draw", "GREASE_PENCIL_MT_grease_pencil_add_layer_extra", "None",
              GREASE_PENCIL_MT_grease_pencil_add_layer_extra_draw(object, space_type))
  /\ UNCHANGED <<grease_pencil, object, space_type, layers, active, use_autolock_layers>>

(* ------------------------------------------------------------ host steps *)
(* Between redraws the host changes the context and the data-block: the
   user switches object, pin or editor, and edits layers through the
   operators and property widgets the draws emit. *)
HostStep ==
  /\ hostSteps < MaxHostSteps
  /\ hostSteps' = hostSteps + 1
  /\ lastOp' = "host"
  /\ lastCls' = ""
  /\ result' = "None"
  /\ widgets' = <<>>
  /\ attrs' = {}
  /\ reads' = {}
  /\ UNCHANGED registered

HostSetGreasePencil ==
  /\ HostStep
  /\ \E v \in {"MISSING", "None", "GP"} \ {grease_pencil} : grease_pencil' = v
  /\ UNCHANGED <<object, space_type, layers, active, use_autolock_layers>>

HostSetObject ==
  /\ HostStep
  /\ object' = IF object = "None" THEN "OB" ELSE "None"
  /\ UNCHANGED <<grease_pencil, space_type, layers, active, use_autolock_layers>>

HostSetSpace ==
  /\ HostStep
  /\ \E v \in SpaceTypes \ {space_type} : space_type' = v
  /\ UNCHANGED <<grease_pencil, object, layers, active, use_autolock_layers>>

HostToggleAutolock ==
  /\ HostStep
  /\ use_autolock_layers' = ~use_autolock_layers
  /\ UNCHANGED <<grease_pencil, object, space_type, layers, active>>

HostLayerAdd ==
  /\ HostStep
  /\ Len(layers) < MaxLayers
  /\ layers' = Append(layers, NewLayer)
  /\ active' = Len(layers) + 1
  /\ UNCHANGED <<grease_pencil, object, space_type, use_autolock_layers>>

HostLayerRemove ==
  /\ HostStep
  /\ active # 0
  /\ layers' = [i \in 1..(Len(layers) - 1) |->
                  IF i < active THEN layers[i] ELSE layers[i + 1]]
  /\ active' = IF active > 1 THEN active - 1 ELSE IF Len(layers) > 1 THEN 1 ELSE 0
  /\ UNCHANGED <<grease_pencil, object, space_type, use_autolock_layers>>

HostSetActive ==
  /\ HostStep
  /\ \E i \in (0..Len(layers)) \ {active} : active' = i
  /\ UNCHANGED <<grease_pencil, object, space_type, layers, use_autolock_layers>>

HostMoveLayer ==
  /\ HostStep
  /\ \E i \in 1..(Len(layers) - 1) :
       /\ layers' = [layers EXCEPT ![i] = layers[i + 1], ![i + 1] = layers[i]]
       /\ active' = IF active = i THEN i + 1 ELSE IF active = i + 1 THEN i ELSE active
  /\ UNCHANGED <<grease_pencil, object, space_type, use_autolock_layers>>

HostSetLock ==
  /\ HostStep
  /\ \E i \in 1..Len(layers) : layers' = [layers EXCEPT ![i].lock = ~layers[i].lock]
  /\ UNCHANGED <<grease_pencil, object, space_type, active, use_autolock_layers>>

HostSetParent ==
  /\ HostStep
  /\ \E i \in 1..Len(layers) : \E t \in ParentTypes \ {layers[i].parent} :
       layers' = [layers EXCEPT ![i].parent = t]
  /\ UNCHANGED <<grease_pencil, object, space_type, active, use_autolock_layers>>

HostSetValue ==
  /\ HostStep
  /\ \E i \in 1..Len(layers) : \E f \in ValueFields :
       \E v \in (0..MaxVal) \ {layers[i][f]} :
         layers' = [layers EXCEPT ![i][f] = v]
  /\ UNCHANGED <<grease_pencil, object, space_type, active, use_autolock_layers>>

Next ==
  \/ RegisterClass
  \/ \E cls \in Panels : Poll(cls)
  \/ Draw_context_grease_pencil
  \/ Draw_grease_pencil_layers
  \/ Draw_grease_pencil_layer_transform
  \/ Draw_grease_pencil_layer_relations
  \/ Draw_add_layer_extra
  \/ HostSetGreasePencil
  \/ HostSetObject
  \/ HostSetSpace
  \/ HostToggleAutolock
  \/ HostLayerAdd
  \/ HostLayerRemove
  \/ HostSetActive
  \/ HostMoveLayer
  \/ HostSetLock
  \/ HostSetParent
  \/ HostSetValue

Spec == Init /\ [][Next]_vars

(* ================================================================ claims *)
T_context == "DATA_PT_context_grease_pencil"
T_layers == "DATA_PT_grease_pencil_layers"
T_transform == "DATA_PT_grease_pencil_layer_transform"
T_relations == "DATA_PT_grease_pencil_layer_relations"
T_menu == "GREASE_PENCIL_MT_grease_pencil_add_layer_extra"

Drew(cls) == lastOp = "draw" /\ lastCls = cls
Polled(cls) == lastOp = "poll" /\ lastCls = cls

Emitted(w) == \E i \in 1..Len(widgets) : widgets[i] = w

(* reads of, and widgets bound to, a field of the active layer *)
LayerReads ==
  {"layer.lock", "layer.parent", "layer.parent.type", "layer.parent.data",
   "layer.opacity", "layer.translation", "layer.rotation", "layer.scale",
   "layer.pass_index", "layer.parent_bone"}

TouchesLayer ==
  \/ reads \cap LayerReads # {}
  \/ \E i \in 1..Len(widgets) : widgets[i][2] \in LayerReads

W_opacity == <<"prop", "layer.opacity", "slider">>
W_bone == <<"prop_search", "layer.parent_bone", "layer.parent.data.bones">>

(* C1: no poll or draw callback of the file ever fails: whatever is missing
   from the context (the grease_pencil attribute, the active object, the
   data-block, the active layer), a callback returns without raising. *)
C1_NoCallbackFails ==
  lastOp \in {"poll", "draw"} => result # "AttributeError"

(* C2: the Transform and Relations panels are never drawn in a state where
   the grease pencil has no active layer, the host drawing a panel only
   where its poll is truthy. *)
C2_HiddenWithoutActiveLayer ==
  (Drew(T_transform) \/ Drew(T_relations)) =>
     /\ grease_pencil = "GP"
     /\ active # 0
     /\ result # "AttributeError"

(* the Transform panel was polled with a data-block that has no active
   layer, and the poll hid it *)
C2_Witness ==
  /\ Polled(T_transform)
  /\ grease_pencil = "GP"
  /\ Len(layers) > 0
  /\ active = 0
  /\ ~Truthy(result)

(* C3: a poll or draw step leaves the host data unchanged: the layers and
   their order, the active layer, every field of every layer and the
   data-block's use_autolock_layers (and the context members). *)
C3_CallbacksOnlyRead ==
  [][lastOp' \in {"poll", "draw"} => hostVars' = hostVars]_vars

(* a draw ran over a data-block with two layers that differ, one locked *)
C3_Witness ==
  /\ Drew(T_transform)
  /\ Len(layers) = 2
  /\ layers[active].lock
  /\ layers[1] # layers[2]

(* C4: classes holds five distinct entries, four panels and one menu; every
   bl_parent_id names a class of the tuple that comes earlier and that has
   no parent itself; and at every point of the registration loop the parent
   of every registered class is registered already. *)
C4_ClassesWellFormed ==
  /\ Len(classes) = 5
  /\ Cardinality(ClassNames) = 5
  /\ Cardinality(ClassNames \cap Panels) = 4
  /\ Cardinality(ClassNames \cap Menus) = 1
  /\ \A i \in 1..Len(classes) :
       bl_parent_id(classes[i]) # "" =>
         /\ bl_parent_id(classes[i]) # classes[i]
         /\ bl_parent_id(bl_parent_id(classes[i])) = ""
         /\ \E j \in 1..(i - 1) : classes[j] = bl_parent_id(classes[i])
  /\ \A i \in 1..Len(registered) :
       bl_parent_id(registered[i]) # "" =>
         \E j \in 1..(i - 1) : registered[j] = bl_parent_id(registered[i])
  /\ \A i, j \in 1..Len(registered) : registered[i] = registered[j] => i = j

(* the registration loop has run to its end *)
C4_Witness ==
  /\ Len(registered) = 5
  /\ registered[3] = T_transform
  /\ registered[2] = T_layers

(* C5: DataButtonsPanel.poll is truthy exactly when the context has a
   present grease_pencil and is falsy without error otherwise;
   LayerDataButtonsPanel.poll is truthy exactly when the grease pencil is
   present and has an active layer, and falsy (without error) otherwise. *)
C5_PollsArePredicates ==
  lastOp = "poll" =>
    /\ result # "AttributeError"
    /\ MixinOf(lastCls) = "DataButtonsPanel" =>
         (Truthy(result) <=> grease_pencil = "GP")
    /\ MixinOf(lastCls) = "LayerDataButtonsPanel" =>
         (Truthy(result) <=> (grease_pencil = "GP" /\ active # 0))

(* C6: the Layers panel's draw always emits the layer tree, the layer_add
   button, the Add Extra menu button and the layer_remove button; it emits
   the opacity slider exactly when an active layer exists, and without an
   active layer it touches no field of a layer. *)
C6_LayersDraw ==
  Drew(T_layers) =>
    /\ result # "AttributeError"
    /\ Emitted(<<"template_grease_pencil_layer_tree", "", "">>)
    /\ Emitted(<<"operator", "grease_pencil.layer_add", "">>)
    /\ Emitted(<<"menu", T_menu, "">>)
    /\ Emitted(<<"operator", "grease_pencil.layer_remove", "">>)
    /\ Emitted(W_opacity) <=> active # 0
    /\ active = 0 => ~TouchesLayer

(* the Layers panel was drawn for a data-block with layers, none active *)
C6_Witness ==
  /\ Drew(T_layers)
  /\ Len(layers) > 0
  /\ active = 0
  /\ Len(widgets) = 4

(* C7: after a draw of the Transform or the Relations panel the layout's
   active flag is the negation of the active layer's lock, and the panel's
   widgets are emitted whether the layer is locked or not; the Layers
   panel's draw writes no active flag and emits the opacity slider for a
   locked layer as for an unlocked one. *)
C7_LockMirrored ==
  /\ (Drew(T_transform) \/ Drew(T_relations)) =>
       /\ <<"layout.active", PyBool(~layers[active].lock)>> \in attrs
       /\ <<"layout.active", PyBool(layers[active].lock)>> \notin attrs
  /\ Drew(T_transform) =>
       /\ Emitted(<<"prop", "layer.translation", "">>)
       /\ Emitted(<<"prop", "layer.rotation", "">>)
       /\ Emitted(<<"prop", "layer.scale", "">>)
  /\ Drew(T_relations) =>
       /\ Emitted(<<"prop", "layer.parent", "">>)
       /\ Emitted(<<"prop", "layer.pass_index", "">>)
       /\ layers[active].parent = "ARMATURE" => Emitted(W_bone)
  /\ (Drew(T_layers) /\ active # 0) =>
       /\ Emitted(W_opacity)
       /\ \A a \in attrs : a[1] # "layout.active"
       /\ "layer.lock" \notin reads

(* the Transform panel was drawn for a locked layer *)
C7_Witness ==
  /\ Drew(T_transform)
  /\ layers[active].lock
  /\ <<"layout.active", "False">> \in attrs
  /\ Len(widgets) = 3

(* C8: in every context that has a grease_pencil attribute, a truthy
   LayerDataButtonsPanel.poll implies a truthy DataButtonsPanel.poll, so a
   child panel is eligible, and drawn, only where its parent panel is. *)
C8_ChildImpliesParent ==
  /\ grease_pencil # "MISSING" =>
       (Truthy(LayerDataButtonsPanel_poll(grease_pencil, active))
          => Truthy(DataButtonsPanel_poll(grease_pencil)))
  /\ \A cls \in Panels :
       (bl_parent_id(cls) # "" /\ (Drew(cls) \/ (Polled(cls) /\ Truthy(result))))
         => Truthy(PollOf(bl_parent_id(cls), grease_pencil, active))

(* a child panel was polled eligible, its parent being eligible too *)
C8_Witness ==
  /\ Polled(T_relations)
  /\ Truthy(result)
  /\ Truthy(PollOf(T_layers, grease_pencil, active))

(* the converse of C8 fails here: the parent is eligible, the child is not *)
C8_ConverseFails ==
  /\ Polled(T_relations)
  /\ ~Truthy(result)
  /\ Truthy(PollOf(T_layers, grease_pencil, active))

(* C9: the Relations panel's draw emits the bone search exactly when the
   active layer has a parent of type ARMATURE; without a parent it reads
   neither the parent's type nor the parent's data; the Parent widget comes
   first and the pass_index widget last in every case, the bone search,
   when emitted, right after the Parent widget. *)
C9_RelationsDraw ==
  Drew(T_relations) =>
    /\ Emitted(W_bone) <=> layers[active].parent = "ARMATURE"
    /\ layers[active].parent = "None" =>
         /\ "layer.parent.type" \notin reads
         /\ "layer.parent.data" \notin reads
    /\ layers[active].parent # "ARMATURE" => "layer.parent.data" \notin reads
    /\ Len(widgets) >= 3
    /\ widgets[1] = <<"prop", "layer.parent", "">>
    /\ widgets[Len(widgets)] = <<"prop", "layer.pass_index", "">>
    /\ Emitted(W_bone) => widgets[2] = W_bone

(* the Relations panel was drawn for a layer parented to an armature *)
C9_Witness ==
  /\ Drew(T_relations)
  /\ layers[active].parent = "ARMATURE"
  /\ Len(widgets) = 4

(* C10: where its poll holds, the context panel's draw emits exactly one ID
   selector: the active object's data when there is an active object, the
   space's pin_id otherwise. *)
C10_OneSelector ==
  Drew(T_context) =>
    /\ result # "AttributeError"
    /\ Len(widgets) = 1
    /\ object # "None" => widgets[1] = <<"template_ID", "ob", "data">>
    /\ object = "None" => widgets[1] = <<"template_ID", "space", "pin_id">>

(* the context panel was drawn for a pinned data-block, no active object *)
C10_Witness ==
  /\ Drew(T_context)
  /\ object = "None"
  /\ grease_pencil = "GP"
  /\ Len(widgets) = 1
====
